---- MODULE Spec2Model ----
(***************************************************************************)
(* Model of simple_privi: the Noiser engine (src/src/noiser.rs), the       *)
(* dataset schema (src/src/dataset.rs) and the terminal event loop         *)
(* (src/src/main.rs).                                                      *)
(*                                                                         *)
(* Representation choices                                                  *)
(*  - CsvDataSet.data is kept as the sequence of its lines, each line as   *)
(*    the sequence of its comma-separated cells.                           *)
(*  - alpha is kept in hundredths: 5 stands for 0.05 and 1 for 0.01, so    *)
(*    the open interval (0,1) is 1..99.                                    *)
(*  - A panic (an unwrap() of None/Err) aborts the process: the flag       *)
(*    panicked is set and no further operation runs.                       *)
(***************************************************************************)
EXTENDS Integers, Sequences, FiniteSets, TLC

VARIABLES
    data,               \* CsvDataSet.data
    aggregate_field,    \* Noiser.aggregate_field
    noise_type,         \* Noiser.noise_type
    accuracy,           \* Noiser.accuracy (index, also the value handed on)
    alpha,              \* Noiser.alpha, in hundredths
    aggregated_data,    \* Noiser.aggregated_data
    noised_data,        \* Noiser.noised_data
    panicked,           \* the process aborted in an unwrap()
    lastOp,             \* history: the last Noiser operation called
    prevOp,             \* history: the operation called before lastOp
    last_arg,           \* history: the argument of that call ("" when it has none)
    acc_before,         \* history: accuracy when lastOp was called
    acc_before2,        \* history: accuracy when prevOp was called
    drawn,              \* history: the noise samples of the last noised_data call
    chan,               \* main: events sent on tx and not yet received on rx
    initial_accuracy,   \* main: index into accuracy_values
    active_noise_type,  \* main: the mechanism the 'n' key flips
    main_aggregated_data, \* main: aggregated_data
    main_noised_data,   \* main: noised_data
    main_state,         \* main: "running", "quit" (loop left) or "panicked"
    last_event,         \* history: the event the loop handled last
    recomputed,         \* history: that event's handler called aggregate_data
    noised_under,       \* history: the parameters main_noised_data was drawn under
    sent,               \* history: the codes of all events sent, in send order
    handled,            \* history: the codes of all events handled, in order
    bucket_labels       \* history: the result of the last aggregate_buckets call

engine_vars == <<data, aggregate_field, noise_type, accuracy, alpha, aggregated_data,
                 noised_data, panicked, lastOp, last_arg, acc_before, drawn>>

trip_vars == <<prevOp, acc_before2>>

main_vars == <<chan, initial_accuracy, active_noise_type, main_aggregated_data,
               main_noised_data, main_state, last_event, recomputed, noised_under>>

fifo_vars == <<sent, handled>>

probe_vars == <<bucket_labels>>

vars == <<engine_vars, trip_vars, main_vars, fifo_vars, probe_vars>>

(***************************************************************************)
(* Bounds of the model                                                     *)
(***************************************************************************)
\* longest dataset, in rows
MaxRows == 2
\* largest magnitude of one noise sample
MaxNoise == 1
\* most events waiting in the channel
MaxChan == 2
\* largest accuracy handed to noised_data directly
MaxAccuracyArg == 2
\* most events sent in one run, where the run's events are remembered
MaxSent == 3

(***************************************************************************)
(* Small helpers                                                           *)
(***************************************************************************)
Range(s) == {s[i] : i \in DOMAIN s}

None == [some |-> FALSE, v |-> <<>>]

Some(x) == [some |-> TRUE, v |-> x]

RECURSIVE SumSeq(_)
SumSeq(s) == IF s = <<>> THEN 0 ELSE Head(s) + SumSeq(Tail(s))

(***************************************************************************)
(* dataset.rs                                                              *)
(***************************************************************************)
COLUMNS == <<"age", "sex", "educ", "race", "income", "married">>

columns == COLUMNS

\* (10000u32..210000).step_by(10000).map(|x| x.to_string())
IncomeBuckets == [i \in 1..20 |-> ToString(10000 * i)]

\* (1u8..21).map(|x| x.to_string())
DefaultBuckets == [i \in 1..20 |-> ToString(i)]

\* mutant: the default range ends one label early
aggregate_buckets_short(field) ==
    IF field = "income" THEN IncomeBuckets ELSE [i \in 1..19 |-> ToString(i)]

\* mutant: the "income" arm is missing
aggregate_buckets_default(field) == DefaultBuckets

aggregate_buckets(field) ==
    IF field = "income" THEN IncomeBuckets ELSE DefaultBuckets

(***************************************************************************)
(* Input rows the datasets are built from: the two rows of the educ        *)
(* scenario (values 9 and 1), a row whose educ and income lie outside the  *)
(* enumerations, and a row with too few cells.                             *)
(***************************************************************************)
RowEduc9 == <<"30", "1", "9", "1", "20000", "1">>

RowEduc1 == <<"41", "0", "1", "2", "10000", "0">>

RowOutside == <<"25", "1", "25", "3", "5000", "1">>

RowShort == <<"52", "0">>

RowPool == {RowEduc9, RowEduc1, RowOutside, RowShort}

Datasets == UNION {[1..n -> RowPool] : n \in 0..MaxRows}

\* the files the engine is constructed over
SampleDatasets == {<<RowOutside, RowEduc9, RowEduc1, RowShort>>}

\* the field names the engine is constructed with ("zip" is no column)
FieldPool == {"educ", "zip"}

\* the field names switchField is called with
SwitchFields == {"educ", "income", "zip"}

\* the field names aggregate_buckets is tried with
BucketFields == Range(COLUMNS) \cup {"zip", ""}

\* the alpha values noised_data is tried with, in hundredths
AlphaPool == {-1, 0, 1, 5, 99, 100, 101}

(***************************************************************************)
(* noiser.rs: aggregate_data_chain and Noiser::aggregate_data              *)
(***************************************************************************)
\* make_split_dataframe: every record is made as long as the column list
conform_record(record) ==
    [i \in 1..Len(columns) |-> IF i <= Len(record) THEN record[i] ELSE ""]

\* make_select_column: fails at invoke when the column is not in the frame
select_column(rows, field) ==
    IF \E c \in 1..Len(columns) : columns[c] = field
    THEN LET c == CHOOSE k \in 1..Len(columns) : columns[k] = field
         IN Some([r \in 1..Len(rows) |-> conform_record(rows[r])[c]])
    ELSE None

\* make_count_by_categories(categories, null_category): one count per
\* category, then (null_category) the count of the values in no category
count_by_categories(values, categories, null_category) ==
    [i \in 1..(Len(categories) + (IF null_category THEN 1 ELSE 0)) |->
        IF i <= Len(categories)
        THEN Cardinality({r \in 1..Len(values) : values[r] = categories[i]})
        ELSE Cardinality({r \in 1..Len(values) : values[r] \notin Range(categories)})]

NullCategory == TRUE

\* mutant: the counts are added onto the cached vector instead of replacing it
aggregate_data_accumulating(rows, field) ==
    LET col == select_column(rows, field)
        counts == count_by_categories(col.v, aggregate_buckets(field), NullCategory)
    IN IF col.some
       THEN Some([i \in 1..Len(counts) |->
                    counts[i] + (IF i <= Len(aggregated_data)
                                 THEN aggregated_data[i] ELSE 0)])
       ELSE None

aggregate_data(rows, field) ==
    LET col == select_column(rows, field)
    IN IF col.some
       THEN Some(count_by_categories(col.v, aggregate_buckets(field), NullCategory))
       ELSE None

(***************************************************************************)
(* noiser.rs: Noiser::noised_data                                          *)
(***************************************************************************)
\* accuracy_to_discrete_{laplacian,gaussian}_scale: an error when the
\* accuracy is not positive or alpha is not inside (0,1); otherwise the
\* scale, kept symbolic as the parameters it was calibrated from
calibrateScale(mechanism, acc, al) ==
    IF acc <= 0 \/ al <= 0 \/ al >= 100
    THEN None
    ELSE Some([mechanism |-> mechanism, accuracy |-> acc, alpha |-> al])

\* the samples one call may draw for a vector of n entries
\* (every entry draws k, or the odd entries draw k and the even ones -k)
NoiseVectors(n) ==
    {[i \in 1..n |-> k] : k \in -MaxNoise..MaxNoise}
        \cup {[i \in 1..n |-> IF i % 2 = 1 THEN k ELSE -k] : k \in -MaxNoise..MaxNoise}

count_plus(count, z) == count + z

\* u64 arithmetic of the measurement: the sum saturates at 0 (the upper end,
\* 2^64 - 1, is out of reach of the counts and samples modelled)
saturating_add(count, z) == IF count + z < 0 THEN 0 ELSE count + z

\* mutant: a failed calibration is replaced by a default scale
noised_data_unchecked(counts, mechanism, acc, al, z) ==
    [panic |-> FALSE, some |-> TRUE,
     v |-> [i \in 1..Len(counts) |-> IF count_plus(counts[i], z[i]) < 0
                                      THEN 0 ELSE count_plus(counts[i], z[i])]]

\* result of noised_data: panic (an unwrap() inside failed), or Some(vector)
noised_data_of(counts, mechanism, acc, al, z) ==
    LET scale == calibrateScale(mechanism, acc, al)
    IN IF ~scale.some
       THEN [panic |-> TRUE, some |-> FALSE, v |-> <<>>]
       ELSE [panic |-> FALSE, some |-> TRUE,
             v |-> [i \in 1..Len(counts) |-> saturating_add(counts[i], z[i])]]

(***************************************************************************)
(* noiser.rs: impl NoiseApplier for Noiser                                 *)
(***************************************************************************)
ACCURACY_VALUES == [i \in 1..100 |-> i - 1]

toggled(t) == IF t = "Laplace" THEN "Gaussian" ELSE "Laplace"

\* mutant: the index advances without wrapping
increased_nowrap(a) == a + 1

increased(a) == (a + 1) % Len(ACCURACY_VALUES)

\* mutant: a plain decrement, with no wrap at 0
decreased_underflow(a) == a - 1

\* mutant: the "- 1" is dropped
decreased_nostep(a) == (a + Len(ACCURACY_VALUES)) % Len(ACCURACY_VALUES)

decreased(a) == (a + Len(ACCURACY_VALUES) - 1) % Len(ACCURACY_VALUES)

\* clear_previous_data: what the two vectors hold after it
clear_previous_data(v) == <<>>

\* refresh_data, run with the fields as they are after the caller's update
refresh_data(field, mechanism, acc) ==
    \E cleared_agg \in {clear_previous_data(aggregated_data)},
       cleared_noised \in {clear_previous_data(noised_data)},
       agg \in {aggregate_data(data, field)} :
       IF ~agg.some
       THEN /\ aggregated_data' = cleared_agg
            /\ noised_data' = cleared_noised
            /\ panicked' = TRUE
            /\ drawn' = <<>>
       ELSE \E z \in NoiseVectors(Len(agg.v)) :
              LET n == noised_data_of(agg.v, mechanism, acc, alpha, z)
              IN IF n.panic \/ ~n.some
                 THEN /\ aggregated_data' = agg.v
                      /\ noised_data' = cleared_noised
                      /\ panicked' = TRUE
                      /\ drawn' = <<>>
                 ELSE /\ aggregated_data' = agg.v
                      /\ noised_data' = n.v
                      /\ panicked' = FALSE
                      /\ drawn' = z

Record(op, arg) ==
    /\ lastOp' = op
    /\ last_arg' = arg
    /\ acc_before' = accuracy

\* state after Noiser::new(dataset, aggregate_field)
NoiserNew ==
    /\ noise_type = "Laplace"
    /\ accuracy = 0
    /\ alpha = 5
    /\ aggregated_data = <<>>
    /\ noised_data = <<>>
    /\ panicked = FALSE
    /\ lastOp = "new"
    /\ last_arg = ""
    /\ acc_before = 0
    /\ drawn = <<>>
    /\ prevOp = "none"
    /\ acc_before2 = 0
    /\ bucket_labels = <<>>

\* mutant: the toggle also takes the index back to where new() put it
toggle_noise_type_resets ==
    /\ ~panicked
    /\ noise_type' = toggled(noise_type)
    /\ accuracy' = 0
    /\ refresh_data(aggregate_field, toggled(noise_type), 0)
    /\ Record("toggle_noise_type", "")
    /\ UNCHANGED <<data, aggregate_field, alpha>>

toggle_noise_type ==
    /\ ~panicked
    /\ noise_type' = toggled(noise_type)
    /\ accuracy' = accuracy
    /\ refresh_data(aggregate_field, toggled(noise_type), accuracy)
    /\ Record("toggle_noise_type", "")
    /\ UNCHANGED <<data, aggregate_field, alpha>>

increase_noise ==
    /\ ~panicked
    /\ accuracy' = increased(accuracy)
    /\ noise_type' = noise_type
    /\ refresh_data(aggregate_field, noise_type, increased(accuracy))
    /\ Record("increase_noise", "")
    /\ UNCHANGED <<data, aggregate_field, alpha>>

decrease_noise ==
    /\ ~panicked
    /\ accuracy' = decreased(accuracy)
    /\ noise_type' = noise_type
    /\ refresh_data(aggregate_field, noise_type, decreased(accuracy))
    /\ Record("decrease_noise", "")
    /\ UNCHANGED <<data, aggregate_field, alpha>>

refresh ==
    /\ ~panicked
    /\ accuracy' = accuracy
    /\ noise_type' = noise_type
    /\ refresh_data(aggregate_field, noise_type, accuracy)
    /\ Record("refresh_data", "")
    /\ UNCHANGED <<data, aggregate_field, alpha>>

\* refresh_data line 133 alone: noised_data applied to the fields as they are
noised_data_call ==
    /\ ~panicked
    /\ lastOp = "new"
    /\ \E z \in NoiseVectors(Len(aggregated_data)) :
         LET n == noised_data_of(aggregated_data, noise_type, accuracy, alpha, z)
         IN IF n.panic \/ ~n.some
            THEN /\ noised_data' = noised_data
                 /\ panicked' = TRUE
                 /\ drawn' = <<>>
            ELSE /\ noised_data' = n.v
                 /\ panicked' = FALSE
                 /\ drawn' = z
    /\ Record("noised_data", "")
    /\ UNCHANGED <<data, aggregate_field, noise_type, accuracy, alpha, aggregated_data>>

\* switchField(newField) of the engine's contract: the field changes, the
\* accuracy index goes back to 0, and the data is refreshed
switchField ==
    /\ ~panicked
    /\ \E newField \in SwitchFields :
         /\ aggregate_field' = newField
         /\ accuracy' = 0
         /\ noise_type' = noise_type
         /\ refresh_data(newField, noise_type, 0)
         /\ Record("switchField", newField)
    /\ UNCHANGED <<data, alpha>>

\* dataset.aggregate_buckets(&aggregate_field), called on its own
aggregate_buckets_call ==
    /\ lastOp = "new"
    /\ bucket_labels' = aggregate_buckets(aggregate_field)
    /\ lastOp' = "aggregate_buckets"
    /\ last_arg' = aggregate_field
    /\ UNCHANGED <<data, aggregate_field, noise_type, accuracy, alpha, aggregated_data,
                   noised_data, panicked, acc_before, drawn>>

\* the engine under any caller, one call at a time
Call ==
    \/ toggle_noise_type
    \/ increase_noise
    \/ decrease_noise
    \/ refresh

(***************************************************************************)
(* main.rs                                                                 *)
(***************************************************************************)
accuracy_values == [i \in 1..10 |-> i]

\* initial_alpha, in hundredths (0.01)
initial_alpha == 1

KeyEvent(c) == [kind |-> "Input", code |-> c]

TickEvent == [kind |-> "Tick", code |-> ""]

\* the keys the thread may read: the four the loop knows and one other
KeyCodes == {"q", "n", "i", "d", "x"}

main_toggled(t) == IF t = "Laplace" THEN "Gaussian" ELSE "Laplace"

main_increased(i) == (i + 1) % Len(accuracy_values)

main_decreased(i) == (i + Len(accuracy_values) - 1) % Len(accuracy_values)

\* fn aggregate_data(noiser, aggregate_field, accuracy, alpha, ..): the
\* noiser draws under its own noise_type, which main never changes
main_aggregate_data(acc) ==
    \E agg \in {aggregate_data(data, aggregate_field)} :
       IF ~agg.some
       THEN /\ main_aggregated_data' = <<>>
            /\ main_noised_data' = <<>>
            /\ main_state' = "panicked"
            /\ noised_under' = noised_under
       ELSE \E z \in NoiseVectors(Len(agg.v)) :
              LET n == noised_data_of(agg.v, noise_type, acc, initial_alpha, z)
              IN IF n.panic \/ ~n.some
                 THEN /\ main_aggregated_data' = agg.v
                      /\ main_noised_data' = <<>>
                      /\ main_state' = "panicked"
                      /\ noised_under' = noised_under
                 ELSE /\ main_aggregated_data' = agg.v
                      /\ main_noised_data' = n.v
                      /\ main_state' = main_state
                      /\ noised_under' = [mechanism |-> noise_type, accuracy |-> acc,
                                          alpha |-> initial_alpha, counts |-> agg.v]

\* main, up to the first pass of the loop: the noiser is built and the data
\* is aggregated and noised once, with accuracy_values[0]
MainStart ==
    /\ chan = <<>>
    /\ initial_accuracy = 0
    /\ active_noise_type = "Laplace"
    /\ main_state = "running"
    /\ last_event = "none"
    /\ recomputed = TRUE
    /\ sent = <<>>
    /\ handled = <<>>
    /\ \E agg \in {aggregate_data(data, aggregate_field)} :
         \E z \in NoiseVectors(Len(agg.v)) :
           LET n == noised_data_of(agg.v, noise_type, accuracy_values[1], initial_alpha, z)
           IN /\ main_aggregated_data = agg.v
              /\ main_noised_data = n.v
              /\ noised_under = [mechanism |-> noise_type, accuracy |-> accuracy_values[1],
                                 alpha |-> initial_alpha, counts |-> agg.v]

\* mutant: the spawned thread applies 'n' itself before sending it
SendInput_applies ==
    /\ main_state = "running"
    /\ Len(chan) < MaxChan
    /\ \E c \in KeyCodes :
         /\ chan' = Append(chan, KeyEvent(c))
         /\ active_noise_type' = IF c = "n" THEN main_toggled(active_noise_type)
                                  ELSE active_noise_type
    /\ UNCHANGED <<initial_accuracy, main_aggregated_data,
                   main_noised_data, main_state, last_event, recomputed, noised_under>>

\* the spawned thread: a key was read
SendInput ==
    /\ main_state = "running"
    /\ Len(chan) < MaxChan
    /\ \E c \in KeyCodes : chan' = Append(chan, KeyEvent(c))
    /\ UNCHANGED <<initial_accuracy, active_noise_type, main_aggregated_data,
                   main_noised_data, main_state, last_event, recomputed, noised_under>>

\* the spawned thread: the tick rate elapsed
SendTick ==
    /\ main_state = "running"
    /\ Len(chan) < MaxChan
    /\ chan' = Append(chan, TickEvent)
    /\ UNCHANGED <<initial_accuracy, active_noise_type, main_aggregated_data,
                   main_noised_data, main_state, last_event, recomputed, noised_under>>

\* mutant: the loop is handed the newest event
Received_newest(e) ==
    /\ main_state = "running"
    /\ chan # <<>>
    /\ chan[Len(chan)] = e
    /\ chan' = SubSeq(chan, 1, Len(chan) - 1)

\* rx.recv() hands the loop the oldest event
Received(e) ==
    /\ main_state = "running"
    /\ chan # <<>>
    /\ Head(chan) = e
    /\ chan' = Tail(chan)

\* mutant: the break is missing, the loop goes on after 'q'
HandleQuit_nobreak ==
    /\ Received(KeyEvent("q"))
    /\ main_state' = main_state
    /\ last_event' = "q"
    /\ recomputed' = FALSE
    /\ UNCHANGED <<initial_accuracy, active_noise_type, main_aggregated_data,
                   main_noised_data, noised_under>>

HandleQuit ==
    /\ Received(KeyEvent("q"))
    /\ main_state' = "quit"
    /\ last_event' = "q"
    /\ recomputed' = FALSE
    /\ UNCHANGED <<initial_accuracy, active_noise_type, main_aggregated_data,
                   main_noised_data, noised_under>>

HandleToggle ==
    /\ Received(KeyEvent("n"))
    /\ active_noise_type' = main_toggled(active_noise_type)
    /\ last_event' = "n"
    /\ recomputed' = FALSE
    /\ UNCHANGED <<initial_accuracy, main_aggregated_data, main_noised_data,
                   main_state, noised_under>>

HandleIncrease ==
    /\ Received(KeyEvent("i"))
    /\ initial_accuracy' = main_increased(initial_accuracy)
    /\ main_aggregate_data(accuracy_values[main_increased(initial_accuracy) + 1])
    /\ last_event' = "i"
    /\ recomputed' = TRUE
    /\ UNCHANGED active_noise_type

HandleDecrease ==
    /\ Received(KeyEvent("d"))
    /\ initial_accuracy' = main_decreased(initial_accuracy)
    /\ main_aggregate_data(accuracy_values[main_decreased(initial_accuracy) + 1])
    /\ last_event' = "d"
    /\ recomputed' = TRUE
    /\ UNCHANGED active_noise_type

HandleOther ==
    /\ Received(KeyEvent("x"))
    /\ last_event' = "x"
    /\ recomputed' = FALSE
    /\ UNCHANGED <<initial_accuracy, active_noise_type, main_aggregated_data,
                   main_noised_data, main_state, noised_under>>

\* mutant: every tick aggregates and noises the data again
HandleTick_recomputes ==
    /\ Received(TickEvent)
    /\ main_aggregate_data(accuracy_values[initial_accuracy + 1])
    /\ last_event' = "Tick"
    /\ recomputed' = TRUE
    /\ UNCHANGED <<initial_accuracy, active_noise_type>>

HandleTick ==
    /\ Received(TickEvent)
    /\ last_event' = "Tick"
    /\ recomputed' = FALSE
    /\ UNCHANGED <<initial_accuracy, active_noise_type, main_aggregated_data,
                   main_noised_data, main_state, noised_under>>

\* main is not running: its locals keep these values
MainIdle ==
    /\ chan = <<>>
    /\ initial_accuracy = 0
    /\ active_noise_type = "Laplace"
    /\ main_aggregated_data = <<>>
    /\ main_noised_data = <<>>
    /\ main_state = "idle"
    /\ last_event = "none"
    /\ recomputed = FALSE
    /\ sent = <<>>
    /\ handled = <<>>
    /\ noised_under = [mechanism |-> "Laplace", accuracy |-> 0, alpha |-> 0, counts |-> <<>>]

(***************************************************************************)
(* Specifications                                                          *)
(***************************************************************************)
\* the engine after Noiser::new, under any sequence of calls
Init ==
    /\ data \in SampleDatasets
    /\ aggregate_field \in FieldPool
    /\ NoiserNew
    /\ MainIdle

Next ==
    \/ toggle_noise_type /\ UNCHANGED <<trip_vars, main_vars, fifo_vars, probe_vars>>
    \/ increase_noise /\ UNCHANGED <<trip_vars, main_vars, fifo_vars, probe_vars>>
    \/ decrease_noise /\ UNCHANGED <<trip_vars, main_vars, fifo_vars, probe_vars>>
    \/ refresh /\ UNCHANGED <<trip_vars, main_vars, fifo_vars, probe_vars>>

Spec == Init /\ [][Next]_vars

\* the same engine, remembering the last two calls
TripRecord ==
    /\ prevOp' = lastOp
    /\ acc_before2' = acc_before
    /\ UNCHANGED <<main_vars, fifo_vars, probe_vars>>

NextTrip ==
    \/ toggle_noise_type /\ TripRecord
    \/ increase_noise /\ TripRecord
    \/ decrease_noise /\ TripRecord
    \/ refresh /\ TripRecord

SpecTrip == Init /\ [][NextTrip]_vars

\* noised_data alone, over the values its inputs (public fields) can take
InitNoised ==
    /\ data \in Datasets
    /\ aggregate_field = "educ"
    /\ noise_type \in {"Laplace", "Gaussian"}
    /\ accuracy \in 0..MaxAccuracyArg
    /\ alpha \in AlphaPool
    /\ aggregated_data = aggregate_data(data, aggregate_field).v
    /\ noised_data = <<>>
    /\ panicked = FALSE
    /\ lastOp = "new"
    /\ last_arg = ""
    /\ acc_before = accuracy
    /\ drawn = <<>>
    /\ prevOp = "none"
    /\ acc_before2 = 0
    /\ bucket_labels = <<>>
    /\ MainIdle

NextNoised == noised_data_call /\ UNCHANGED <<trip_vars, main_vars, fifo_vars, probe_vars>>

SpecNoised == InitNoised /\ [][NextNoised]_vars

\* aggregate_buckets alone, over datasets, field names and engine fields
InitBuckets ==
    /\ data \in Datasets
    /\ aggregate_field \in BucketFields
    /\ noise_type \in {"Laplace", "Gaussian"}
    /\ accuracy \in 0..MaxAccuracyArg
    /\ alpha = 5
    /\ aggregated_data = <<>>
    /\ noised_data = <<>>
    /\ panicked = FALSE
    /\ lastOp = "new"
    /\ last_arg = ""
    /\ acc_before = accuracy
    /\ drawn = <<>>
    /\ prevOp = "none"
    /\ acc_before2 = 0
    /\ bucket_labels = <<>>
    /\ MainIdle

NextBuckets ==
    aggregate_buckets_call /\ UNCHANGED <<trip_vars, main_vars, fifo_vars>>

SpecBuckets == InitBuckets /\ [][NextBuckets]_vars

\* the engine with the switchField transition of its contract
NextSwitch ==
    \/ Next
    \/ switchField /\ UNCHANGED <<trip_vars, main_vars, fifo_vars, probe_vars>>

SpecSwitch == Init /\ [][NextSwitch]_vars

InitMain ==
    /\ data \in SampleDatasets
    /\ aggregate_field = "educ"
    /\ NoiserNew
    /\ MainStart

NextMain ==
    \/ SendInput /\ UNCHANGED <<engine_vars, trip_vars, fifo_vars, probe_vars>>
    \/ SendTick /\ UNCHANGED <<engine_vars, trip_vars, fifo_vars, probe_vars>>
    \/ HandleQuit /\ UNCHANGED <<engine_vars, trip_vars, fifo_vars, probe_vars>>
    \/ HandleToggle /\ UNCHANGED <<engine_vars, trip_vars, fifo_vars, probe_vars>>
    \/ HandleIncrease /\ UNCHANGED <<engine_vars, trip_vars, fifo_vars, probe_vars>>
    \/ HandleDecrease /\ UNCHANGED <<engine_vars, trip_vars, fifo_vars, probe_vars>>
    \/ HandleOther /\ UNCHANGED <<engine_vars, trip_vars, fifo_vars, probe_vars>>
    \/ HandleTick /\ UNCHANGED <<engine_vars, trip_vars, fifo_vars, probe_vars>>

SpecMain == InitMain /\ [][NextMain]_vars

\* the same program, remembering what was sent and what was handled, for
\* runs of at most MaxSent events
SendRecord ==
    /\ Len(sent) < MaxSent
    /\ sent' = Append(sent, chan'[Len(chan')])
    /\ handled' = handled
    /\ UNCHANGED <<engine_vars, trip_vars, probe_vars>>

HandleRecord ==
    /\ handled' = Append(handled, Head(chan))
    /\ sent' = sent
    /\ UNCHANGED <<engine_vars, trip_vars, probe_vars>>

\* one pass of the loop: recv, then the matching arm
Handle ==
    \/ HandleQuit /\ HandleRecord
    \/ HandleToggle /\ HandleRecord
    \/ HandleIncrease /\ HandleRecord
    \/ HandleDecrease /\ HandleRecord
    \/ HandleOther /\ HandleRecord
    \/ HandleTick /\ HandleRecord

NextFifo ==
    \/ SendInput /\ SendRecord
    \/ SendTick /\ SendRecord
    \/ Handle

SpecFifo == InitMain /\ [][NextFifo]_vars

\* the main thread is scheduled: a loop that can receive does receive
SpecFair == InitMain /\ [][NextFifo]_vars /\ WF_vars(Handle)

TypeOK ==
    /\ accuracy \in 0..99
    /\ noise_type \in {"Laplace", "Gaussian"}
    /\ panicked \in BOOLEAN
    /\ initial_accuracy \in 0..9

(***************************************************************************)
(* Claims                                                                  *)
(***************************************************************************)
\* the largest accuracy index
MaxIndex == Len(ACCURACY_VALUES) - 1

\* the rows of the dataset whose value in the active field is v
RowsWith(v) ==
    {r \in 1..Len(data) : select_column(data, aggregate_field).v[r] = v}

\* C1: when a stage of refresh() fails (the aggregation, or the calibration
\* and noising), the engine keeps the vector pair it had cached and does not
\* abort the process.
C1_FailedRefreshKeepsPair ==
    [][(\/ ~aggregate_data(data, aggregate_field).some
        \/ ~calibrateScale(noise_type', accuracy', alpha).some)
       => (/\ aggregated_data' = aggregated_data
           /\ noised_data' = noised_data
           /\ ~panicked')]_vars

\* C2: between two events the noised vector main shows was drawn from the
\* true counts it shows, under the current mechanism, accuracy and alpha.
C2_PairUnderCurrentParameters ==
    main_state = "running" =>
        noised_under = [mechanism |-> active_noise_type,
                        accuracy |-> accuracy_values[initial_accuracy + 1],
                        alpha |-> initial_alpha,
                        counts |-> main_aggregated_data]

\* C3: right after construction the engine is Laplace at accuracy index 0
\* and both cached vectors hold one entry per bucket of the active field.
C3_ConstructedPopulated ==
    lastOp = "new" =>
        /\ noise_type = "Laplace"
        /\ accuracy = 0
        /\ Len(aggregated_data) = Len(aggregate_buckets(aggregate_field))
        /\ Len(noised_data) = Len(aggregate_buckets(aggregate_field))

\* C4: increase_noise takes the maximum index to 0 and any other index up by
\* one; decrease_noise takes index 0 to the maximum and any other index down
\* by one.
C4_WrapAround ==
    /\ lastOp = "increase_noise" =>
          accuracy = IF acc_before = MaxIndex THEN 0 ELSE acc_before + 1
    /\ lastOp = "decrease_noise" =>
          accuracy = IF acc_before = 0 THEN MaxIndex ELSE acc_before - 1

\* C4 witness: increase_noise was called at the maximum index and left 0.
C4_Witness ==
    /\ lastOp = "increase_noise"
    /\ acc_before = MaxIndex
    /\ accuracy = 0

C6_OneCountPerBucket ==
    (lastOp # "new" /\ aggregate_data(data, aggregate_field).some) =>
        LET labels == aggregate_buckets(aggregate_field)
        IN /\ Len(aggregated_data) = Len(labels)
           /\ \A i \in 1..Len(labels) :
                 aggregated_data[i] = Cardinality(RowsWith(labels[i]))
           /\ SumSeq(aggregated_data)
                 = Cardinality(UNION {RowsWith(l) : l \in Range(labels)})

\* C7: handling the mechanism key flips the mechanism and recomputes the
\* noised vector under the new mechanism.
C7_ToggleRecomputes ==
    last_event = "n" =>
        /\ recomputed
        /\ noised_under.mechanism = active_noise_type

\* C8: with an accuracy that is not positive, or an alpha outside (0,1),
\* noised_data returns no vector: the calibration fails and nothing is stored.
C8_InvalidParametersYieldNoVector ==
    (lastOp = "noised_data" /\ (accuracy <= 0 \/ alpha <= 0 \/ alpha >= 100)) =>
        /\ panicked
        /\ noised_data = <<>>
        /\ drawn = <<>>

\* C8 witness: noised_data was called with a positive accuracy and alpha = 1.
C8_Witness ==
    /\ lastOp = "noised_data"
    /\ accuracy > 0
    /\ alpha = 100
    /\ panicked

C10_SignedNoisedVector ==
    (lastOp # "new" /\ ~panicked) =>
        /\ Len(noised_data) = Len(aggregated_data)
        /\ \A i \in 1..Len(aggregated_data) :
              noised_data[i] = aggregated_data[i] + drawn[i]
\* the labels of "income": 10000, 20000, ..., 200000
ExpectedIncomeLabels ==
    <<"10000", "20000", "30000", "40000", "50000", "60000", "70000", "80000",
      "90000", "100000", "110000", "120000", "130000", "140000", "150000",
      "160000", "170000", "180000", "190000", "200000">>

\* the labels of every other field: 1, 2, ..., 20
ExpectedDefaultLabels ==
    <<"1", "2", "3", "4", "5", "6", "7", "8", "9", "10", "11", "12", "13", "14",
      "15", "16", "17", "18", "19", "20">>

\* C11: aggregate_buckets depends on the field name alone: "income" gives the
\* 20 labels 10000..200000 in ascending order and any other name the 20
\* labels 1..20, whatever the dataset and the engine fields are.
C11_BucketsByFieldNameOnly ==
    lastOp = "aggregate_buckets" =>
        bucket_labels = IF aggregate_field = "income"
                        THEN ExpectedIncomeLabels
                        ELSE ExpectedDefaultLabels

\* C11 witness: aggregate_buckets("income") was called over a dataset with
\* rows and an engine at a non-zero accuracy, and returned 20 labels.
C11_Witness ==
    /\ lastOp = "aggregate_buckets"
    /\ aggregate_field = "income"
    /\ data # <<>>
    /\ accuracy > 0
    /\ Len(bucket_labels) = 20
\* C12: a refresh that directly follows a refresh leaves the cached
\* true-count vector as the first one left it.
C12_RefreshIdempotent ==
    [][(lastOp = "refresh_data" /\ ~panicked /\ lastOp' = "refresh_data")
       => aggregated_data' = aggregated_data]_vars

\* C12 witness: two refreshes in a row have run and the true-count vector is
\* populated, with a noised vector that differs from it.
C12_Witness ==
    /\ prevOp = "refresh_data"
    /\ lastOp = "refresh_data"
    /\ ~panicked
    /\ aggregated_data # <<>>
    /\ noised_data # aggregated_data
\* the loop takes the event e off the channel in this step
Handling(e) ==
    /\ main_state = "running"
    /\ chan # <<>>
    /\ Head(chan) = e
    /\ chan' = Tail(chan)

\* C13: an event moves the engine by exactly its own transition ('n' flips
\* the mechanism, 'i' and 'd' step the index); handling 'q' aggregates
\* nothing, draws no noise, changes neither mechanism, index nor vectors and
\* leaves the loop, after which nothing changes any more.
C13_QuitNeverReachesCore ==
    [][/\ Handling(KeyEvent("q")) =>
            /\ main_state' = "quit"
            /\ ~recomputed'
            /\ UNCHANGED <<initial_accuracy, active_noise_type, main_aggregated_data,
                           main_noised_data, noised_under, engine_vars>>
       /\ Handling(KeyEvent("n")) =>
            /\ active_noise_type' # active_noise_type
            /\ initial_accuracy' = initial_accuracy
       /\ Handling(KeyEvent("i")) =>
            /\ initial_accuracy' = (initial_accuracy + 1) % 10
            /\ active_noise_type' = active_noise_type
       /\ Handling(KeyEvent("d")) =>
            /\ initial_accuracy' = (initial_accuracy + 9) % 10
            /\ active_noise_type' = active_noise_type
       /\ main_state = "quit" => UNCHANGED vars]_vars

\* C13 witness: 'q' was handled while another event was still waiting.
C13_Witness ==
    /\ main_state = "quit"
    /\ last_event = "q"
    /\ chan # <<>>

\* C18: handling a Tick, or a key other than 'q', 'n', 'i', 'd', changes
\* neither mechanism, index, alpha nor the two vectors, and recomputes nothing.
C18_TickAndOtherKeysChangeNothing ==
    [][(Handling(TickEvent) \/ Handling(KeyEvent("x"))) =>
          /\ ~recomputed'
          /\ UNCHANGED <<initial_accuracy, active_noise_type, main_aggregated_data,
                         main_noised_data, main_state, noised_under, engine_vars>>]_vars

\* C18 witness: a Tick was handled after the index had moved, and the loop
\* is still running.
C18_Witness ==
    /\ last_event = "Tick"
    /\ main_state = "running"
    /\ initial_accuracy # 0
\* the spawned thread puts an event on the channel in this step
Sending == Len(chan') > Len(chan)

\* C14: a step of the spawned thread only puts an event on the channel: the
\* index, the mechanism and the two vectors are written by the loop alone;
\* and the loop handles the events in the order they were sent: what was
\* handled, followed by what waits on the channel, is what was sent.
C14_OneControlThreadInSendOrder ==
    /\ [][Sending =>
            /\ chan' = Append(chan, sent'[Len(sent')])
            /\ UNCHANGED <<initial_accuracy, active_noise_type, main_aggregated_data,
                           main_noised_data, main_state, last_event, recomputed,
                           noised_under, handled, engine_vars>>]_vars
    /\ [](sent = handled \o chan)

\* C14 witness: two events were handled while a third, sent later, waits.
C14_Witness ==
    /\ Len(handled) = 2
    /\ handled[1] # handled[2]
    /\ chan # <<>>
    /\ active_noise_type = "Gaussian"

HasQuit(s) == \E i \in 1..Len(s) : s[i] = KeyEvent("q")

\* the events up to and including the first 'q'
UpToFirstQuit(s) ==
    LET i == CHOOSE i \in 1..Len(s) :
                 /\ s[i] = KeyEvent("q")
                 /\ \A j \in 1..(i - 1) : s[j] # KeyEvent("q")
    IN SubSeq(s, 1, i)

\* C19: when the main thread is scheduled, a 'q' on the channel leads to the
\* loop having left; and when it has left, it has handled exactly the events
\* sent up to the first 'q', each once, in the order they were sent.
C19_QuitEventuallyTerminates ==
    /\ HasQuit(chan) ~> (main_state = "quit")
    /\ [](main_state = "quit" =>
            /\ HasQuit(sent)
            /\ handled = UpToFirstQuit(sent))

\* C19 witness: the loop left after handling an earlier event and the 'q',
\* with a later event never handled.
C19_Witness ==
    /\ main_state = "quit"
    /\ Len(handled) >= 2
    /\ Len(sent) > Len(handled)
\* the last call ran refresh_data
Refreshed ==
    lastOp \in {"toggle_noise_type", "increase_noise", "decrease_noise", "refresh_data"}

\* C15: whenever refresh_data got as far as the calibrator (the aggregation
\* succeeded), the accuracy it handed over is strictly positive.
C15_CalibratorAccuracyPositive ==
    (Refreshed /\ aggregated_data # <<>>) => accuracy > 0

\* C16: the accuracy index is always within 0..MaxIndex, whatever calls were
\* made.
C16_IndexWithinRange == accuracy \in 0..MaxIndex

\* C16 witness: decrease_noise was called at index 0 and left the maximum.
C16_Witness ==
    /\ lastOp = "decrease_noise"
    /\ acc_before = 0
    /\ accuracy = MaxIndex
    /\ ~panicked

\* C17: increase_noise and decrease_noise leave the mechanism as it is,
\* toggle_noise_type leaves the accuracy index as it is, and no call changes
\* alpha, the active field or the dataset.
C17_MutatorFrame ==
    [][/\ lastOp' \in {"increase_noise", "decrease_noise"} => noise_type' = noise_type
       /\ lastOp' = "toggle_noise_type" => accuracy' = accuracy
       /\ alpha' = alpha
       /\ aggregate_field' = aggregate_field
       /\ data' = data]_vars

\* C17 witness: toggle_noise_type succeeded at a non-zero index, which it
\* left alone, after an increase_noise that left the mechanism alone.
C17_Witness ==
    /\ lastOp = "toggle_noise_type"
    /\ ~panicked
    /\ noise_type = "Gaussian"
    /\ accuracy = acc_before
    /\ accuracy > 0
====
